---------------------------- MODULE Spec2Model ----------------------------
(***************************************************************************)
(* A model of the hybrid verse matcher of scripture-sync                   *)
(* (backend/app/verse_matcher.py, backend/app/bible_data.py).              *)
(*                                                                         *)
(* Text is a sequence of one-character strings.  Scores are fixed point:   *)
(* the sub-scores (exact, fuzzy, semantic) are in thousandths, a combined  *)
(* score and a threshold are in ten-thousandths, so every blend of the     *)
(* code (weights in tenths) is an exact integer.                           *)
(***************************************************************************)
EXTENDS Integers, Sequences, FiniteSets, TLC

(***************************************************************************)
(* The state.  Two callers query the matcher: "api", a request handler on  *)
(* the server's event loop, which runs from one await to the next without  *)
(* interruption, and "audio", the transcription callback that              *)
(* AudioProcessor.process_audio runs with asyncio.run on its own thread,   *)
(* whose steps interleave with the event loop's.                           *)
(***************************************************************************)
VARIABLES
    store,              \* the verses table
    oracle,             \* what the semantic backend answers in this run
    embedder,           \* self.embedder is set
    faiss_index,        \* self.faiss_index
    verses_cache,       \* self.verses_cache, a list of entry ids
    book_lookup,        \* self.book_lookup
    reference_lookup,   \* self.reference_lookup
    ipc,                \* where initialize is: "idle", "await"
    started,            \* an initialize call has returned
    pc,                 \* where each caller's find_best_match is
    loc,                \* each caller's arguments and locals
    out,                \* the call each caller got back, until another
                        \* process runs
    earlier,            \* api's call before out["api"], when the two had the
                        \* same arguments and nothing ran between them
    text_in,            \* the arguments of a call of a text function
    text_out,           \* what the text function returned
    locked,             \* manager.locked
    active_connections, \* manager.active_connections
    task,               \* where the on_transcription task is
    bc,                 \* the frame of each running manager.broadcast call
    last_sent,          \* the last message a client received
    is_running,         \* AudioProcessor.is_running
    audio_queue,        \* AudioProcessor.audio_queue, the chunks by number
    listener,           \* where the thread of start_listening is
    processor,          \* where the thread of process_audio is
    audio_buffer,       \* len(audio_buffer) of start_listening
    transcribed,        \* the chunks whisper has transcribed
    stop_called         \* stop() has been called

vars == <<store, oracle, embedder, faiss_index, verses_cache, book_lookup,
          reference_lookup, ipc, started, pc, loc, out, earlier, text_in,
          text_out, locked, active_connections, task, bc, last_sent,
          is_running, audio_queue, listener, processor, audio_buffer,
          transcribed, stop_called>>

\* the state of main.py: the connection manager and its tasks
server == <<locked, active_connections, task, bc, last_sent>>

\* the state of audio_processor.py: the processor and its two threads
audio == <<is_running, audio_queue, listener, processor, audio_buffer,
           transcribed, stop_called>>


(***************************************************************************)
(* Characters and the character classes of Python's re module that the     *)
(* code uses (restricted to ASCII).                                        *)
(***************************************************************************)
UpperLetters == <<"A","B","C","D","E","F","G","H","I","J","K","L","M",
                  "N","O","P","Q","R","S","T","U","V","W","X","Y","Z">>

LowerLetters == <<"a","b","c","d","e","f","g","h","i","j","k","l","m",
                  "n","o","p","q","r","s","t","u","v","w","x","y","z">>

IsUpper(c) == \E i \in 1..26 : UpperLetters[i] = c

IsLower(c) == \E i \in 1..26 : LowerLetters[i] = c

IsLetter(c) == IsUpper(c) \/ IsLower(c)

IsDigit(c) == c \in {"0","1","2","3","4","5","6","7","8","9"}

\* \s
IsSpace(c) == c \in {" ", "\t", "\n"}

\* \w : letters, digits and the underscore
IsWord(c) == IsLetter(c) \/ IsDigit(c) \/ c = "_"

\* [A-Za-z0-9]
IsAlnum(c) == IsLetter(c) \/ IsDigit(c)

\* str.lower() on one character
LowerChar(c) ==
    IF IsUpper(c) THEN LowerLetters[CHOOSE i \in 1..26 : UpperLetters[i] = c]
    ELSE c

\* str.lower()
Lower(s) == [i \in 1..Len(s) |-> LowerChar(s[i])]

\* int() of one decimal digit
DigitVal(c) ==
    CASE c = "0" -> 0 [] c = "1" -> 1 [] c = "2" -> 2 [] c = "3" -> 3
      [] c = "4" -> 4 [] c = "5" -> 5 [] c = "6" -> 6 [] c = "7" -> 7
      [] c = "8" -> 8 [] c = "9" -> 9

RECURSIVE ParseInt(_)
\* int() of a non-empty run of decimal digits
ParseInt(s) ==
    IF Len(s) = 0 THEN 0
    ELSE 10 * ParseInt(SubSeq(s, 1, Len(s) - 1)) + DigitVal(s[Len(s)])

RECURSIVE LStrip(_)
LStrip(s) ==
    IF Len(s) > 0 /\ IsSpace(s[1]) THEN LStrip(Tail(s)) ELSE s

RECURSIVE RStrip(_)
RStrip(s) ==
    IF Len(s) > 0 /\ IsSpace(s[Len(s)]) THEN RStrip(SubSeq(s, 1, Len(s) - 1))
    ELSE s

\* str.strip()
Strip(s) == RStrip(LStrip(s))

RECURSIVE CollapseSpaces(_)
\* re.sub(r'\s+', ' ', s): every maximal run of whitespace becomes one space
CollapseSpaces(s) ==
    IF Len(s) = 0 THEN <<>>
    ELSE IF IsSpace(s[1])
         THEN <<" ">> \o CollapseSpaces(LStrip(s))
         ELSE <<s[1]>> \o CollapseSpaces(Tail(s))

\* re.sub(r'[^\w\s]', ' ', c) on one character
WordOrSpace(c) == IF IsWord(c) \/ IsSpace(c) THEN c ELSE " "

\* normalize_text: lower, [^\w\s] -> ' ', \s+ -> ' ', strip
normalize_text(text) ==
    Strip(CollapseSpaces([i \in 1..Len(text) |->
                             WordOrSpace(LowerChar(text[i]))]))

\* re.sub(r'[^a-z0-9\s]', ' ', c) on one character
BookCharOrSpace(c) == IF IsLower(c) \/ IsDigit(c) \/ IsSpace(c) THEN c ELSE " "

\* VerseMatcher._normalize_book: lower, [^a-z0-9\s] -> ' ', \s+ -> ' ', strip
NormalizeBook(name) ==
    Strip(CollapseSpaces([i \in 1..Len(name) |->
                             BookCharOrSpace(LowerChar(name[i]))]))

\* Python's "a in b" on strings: a is a contiguous substring of b
IsSubstring(a, b) ==
    \E i \in 0..(Len(b) - Len(a)) : SubSeq(b, i + 1, i + Len(a)) = a

(***************************************************************************)
(* The scorers.  A sub-score is an integer number of thousandths.          *)
(***************************************************************************)
Max2(a, b) == IF a >= b THEN a ELSE b

Min2(a, b) == IF a <= b THEN a ELSE b

SetMax(S) == CHOOSE m \in S : \A y \in S : y <= m

\* the containment score without the 0.9 of line 76
ExactOfNormNoPenalty(query_norm, verse_norm) ==
    IF Len(query_norm) = 0 \/ Len(verse_norm) = 0 THEN 0
    ELSE IF IsSubstring(query_norm, verse_norm)
         THEN (1000 * Len(query_norm)) \div Len(verse_norm)
    ELSE IF IsSubstring(verse_norm, query_norm)
         THEN (1000 * Len(verse_norm)) \div Len(query_norm)
    ELSE 0

\* lines 66-78 on the two normalized strings
ExactOfNorm(query_norm, verse_norm) ==
    IF Len(query_norm) = 0 \/ Len(verse_norm) = 0 THEN 0
    ELSE IF IsSubstring(query_norm, verse_norm)
         THEN (1000 * Len(query_norm)) \div Len(verse_norm)
    ELSE IF IsSubstring(verse_norm, query_norm)
         THEN (900 * Len(verse_norm)) \div Len(query_norm)
    ELSE 0

\* VerseMatcher.exact_match: containment score of the normalized strings
exact_match(query, verse_text) ==
    ExactOfNorm(normalize_text(query), normalize_text(verse_text))

\* the cell of column j of a row, given the row above and the row so far
LcsCell(ch, b, above, row, j) ==
    IF ch = b[j] THEN above[j] + 1 ELSE Max2(above[j + 1], row[j])

RECURSIVE LcsRow(_, _, _, _)
\* one row of the longest-common-subsequence table; row[j + 1] is column j
LcsRow(ch, b, above, row) ==
    IF Len(row) = Len(b) + 1 THEN row
    ELSE LcsRow(ch, b, above, Append(row, LcsCell(ch, b, above, row, Len(row))))

RECURSIVE LcsFrom(_, _, _, _)
LcsFrom(a, b, i, above) ==
    IF i > Len(a) THEN above[Len(b) + 1]
    ELSE LcsFrom(a, b, i + 1, LcsRow(a[i], b, above, <<0>>))

\* length of a longest common subsequence of a and b
Lcs(a, b) == LcsFrom(a, b, 1, [j \in 1..(Len(b) + 1) |-> 0])

\* rapidfuzz's fuzz.ratio / 100: the normalized Indel similarity
\* 2 * lcs / (len(a) + len(b)), in thousandths
IndelRatio(a, b) ==
    IF Len(a) + Len(b) = 0 THEN 1000
    ELSE (2000 * Lcs(a, b)) \div (Len(a) + Len(b))

\* the windows of long that partial_ratio aligns a string of n characters
\* with: those of n characters, and the shorter ones at either end
Windows(long, n) ==
    {SubSeq(long, i, i + n - 1) : i \in 1..(Len(long) - n + 1)}
    \cup {SubSeq(long, 1, k) : k \in 1..(n - 1)}
    \cup {SubSeq(long, Len(long) - k + 1, Len(long)) : k \in 1..(n - 1)}

\* the best fuzz.ratio of short against a window of long
BestWindow(short, long) ==
    IF Len(short) = 0 THEN 0
    ELSE SetMax({IndelRatio(short, w) : w \in Windows(long, Len(short))})

\* rapidfuzz's fuzz.partial_ratio / 100, in thousandths: the best
\* fuzz.ratio of the shorter string against a window of the longer one
PartialRatio(s1, s2) ==
    IF Len(s1) <= Len(s2) THEN BestWindow(s1, s2) ELSE BestWindow(s2, s1)

\* lines 85-90 on the two normalized strings
FuzzyOfNorm(query_norm, verse_norm) ==
    IF Len(query_norm) = 0 \/ Len(verse_norm) = 0 THEN 0
    ELSE PartialRatio(query_norm, verse_norm)

\* VerseMatcher.fuzzy_match
fuzzy_match(query, verse_text) ==
    FuzzyOfNorm(normalize_text(query), normalize_text(verse_text))

(***************************************************************************)
(* VerseMatcher.REFERENCE_REGEX, as the backtracking matcher applies it to *)
(* query.strip():                                                          *)
(*   ^\s*(?P<book>[1-3]?\s*[A-Za-z][\w\s]*?)\s+(?P<chapter>\d+)\s*[:.]\s*  *)
(*   (?P<verse>\d+)(?:\s*(?:\(|\[)?(?P<version>[A-Za-z0-9]+)(?:\)|\])?)?   *)
(*   \s*$                                                                  *)
(* The book group is lazy (the shortest book that lets the rest match);    *)
(* every other repetition is greedy.  An absent group is <<>>.             *)
(***************************************************************************)
\* the first index >= i that does not hold a whitespace character
SkipSpaces(s, i) ==
    CHOOSE j \in i..(Len(s) + 1) :
        /\ \A k \in i..(j - 1) : IsSpace(s[k])
        /\ (j = Len(s) + 1 \/ ~IsSpace(s[j]))

\* the first index >= i that does not hold a digit
DigitRunEnd(s, i) ==
    CHOOSE j \in i..(Len(s) + 1) :
        /\ \A k \in i..(j - 1) : IsDigit(s[k])
        /\ (j = Len(s) + 1 \/ ~IsDigit(s[j]))

\* the first index >= i that does not hold a character of [A-Za-z0-9]
AlnumRunEnd(s, i) ==
    CHOOSE j \in i..(Len(s) + 1) :
        /\ \A k \in i..(j - 1) : IsAlnum(s[k])
        /\ (j = Len(s) + 1 \/ ~IsAlnum(s[j]))

NoVersion == <<>>

\* the rest of the tail once the version run s[open..e-1] is read: the
\* optional closing bracket and \s*$, or, the group failing, \s*$ from j
MatchTailClose(s, j, open, e) ==
    IF /\ e > open
       /\ SkipSpaces(s, IF e <= Len(s) /\ s[e] \in {")", "]"}
                        THEN e + 1 ELSE e) = Len(s) + 1
    THEN [ok |-> TRUE, version |-> SubSeq(s, open, e - 1)]
    ELSE [ok |-> j = Len(s) + 1, version |-> NoVersion]

\* the optional opening bracket at j, then the version run
MatchTailOpen(s, j) ==
    MatchTailClose(s, j,
        IF j <= Len(s) /\ s[j] \in {"(", "["} THEN j + 1 ELSE j,
        AlnumRunEnd(s, IF j <= Len(s) /\ s[j] \in {"(", "["}
                       THEN j + 1 ELSE j))

\* (?:\s*(?:\(|\[)?(?P<version>[A-Za-z0-9]+)(?:\)|\])?)?\s*$ from index i
MatchTail(s, i) == MatchTailOpen(s, SkipSpaces(s, i))

\* what a failed match of the part after the book gives
NoRest ==
    [ok |-> FALSE, chapter |-> <<>>, verse |-> <<>>, version |-> NoVersion]

\* the verse group s[v0..v-1], the longest run of digits the tail accepts
MatchVerseEnd(s, c0, c1, v0, ends) ==
    IF ends = {} THEN NoRest
    ELSE [ok |-> TRUE, chapter |-> SubSeq(s, c0, c1 - 1),
          verse |-> SubSeq(s, v0, SetMax(ends) - 1),
          version |-> MatchTail(s, SetMax(ends)).version]

\* (?P<verse>\d+) from v0 and the tail
MatchVerse(s, c0, c1, v0) ==
    MatchVerseEnd(s, c0, c1, v0,
        {v \in (v0 + 1)..DigitRunEnd(s, v0) : MatchTail(s, v).ok})

\* [:.]\s* at sep
MatchSeparator(s, c0, c1, sep) ==
    IF sep > Len(s) THEN NoRest
    ELSE IF s[sep] \notin {":", "."} THEN NoRest
    ELSE MatchVerse(s, c0, c1, SkipSpaces(s, sep + 1))

\* (?P<chapter>\d+)\s* : the chapter is s[c0..c1-1]
MatchChapter(s, i, c0, c1) ==
    IF c0 = i \/ c1 = c0 THEN NoRest
    ELSE MatchSeparator(s, c0, c1, SkipSpaces(s, c1))

\* \s+ up to c0, then the chapter's digits
MatchSpaces(s, i, c0) == MatchChapter(s, i, c0, DigitRunEnd(s, c0))

\* \s+(?P<chapter>\d+)\s*[:.]\s*(?P<verse>\d+)...$ from index i
MatchAfterBook(s, i) == MatchSpaces(s, i, SkipSpaces(s, i))

\* s[1..b] matches [1-3]?\s*[A-Za-z][\w\s]*  (s is stripped)
IsBookPrefix(s, b) ==
    \E p \in 1..b :
        /\ IsLetter(s[p])
        /\ \/ p = 1
           \/ /\ s[1] \in {"1", "2", "3"}
              /\ \A k \in 2..(p - 1) : IsSpace(s[k])
        /\ \A k \in (p + 1)..b : IsWord(s[k]) \/ IsSpace(s[k])

SetMin(S) == CHOOSE m \in S : \A n \in S : m <= n

\* the groups of the match whose book is s[1..b]
MatchGroups(s, b, rest) ==
    [ok |-> TRUE, book |-> SubSeq(s, 1, b), chapter |-> rest.chapter,
     verse |-> rest.verse, version |-> rest.version]

\* the lazy book group: the shortest of the books that let the rest match
MatchBook(s, books) ==
    IF books = {}
    THEN [ok |-> FALSE, book |-> <<>>, chapter |-> <<>>, verse |-> <<>>,
          version |-> NoVersion]
    ELSE MatchGroups(s, SetMin(books), MatchAfterBook(s, SetMin(books) + 1))

\* the regular expression on a stripped string
MatchStripped(s) ==
    MatchBook(s, {b \in 1..Len(s) :
                     IsBookPrefix(s, b) /\ MatchAfterBook(s, b + 1).ok})

\* REFERENCE_REGEX.match(query.strip()) with its named groups
MatchReference(query) == MatchStripped(Strip(query))

(***************************************************************************)
(* The queries of the model, and the pure functions of a query tabulated   *)
(* over them (the tables are the functions' values, computed once).        *)
(***************************************************************************)
Q_Citation     == <<"J","n"," ","1",":","1">>
Q_CitationKjv  == <<"j","n"," ","1",".","1"," ","(","K","J","V",")">>
Q_CitationMiss == <<"P","s"," ","9",":","9">>
Q_Phrase       == <<"j","e","s","u","s">>
Q_Unrelated    == <<"q","q","q","q","q">>
Q_Short        == <<" ","J","n"," ","1"," "," ">>
Q_Verse        == <<"J","e","s","u","s"," ","w","e","p","t","!">>
Q_Empty        == <<>>

Queries ==
    {Q_Citation, Q_CitationKjv, Q_CitationMiss, Q_Phrase, Q_Unrelated,
     Q_Short, Q_Verse, Q_Empty}

\* REFERENCE_REGEX.match on each of the model's queries, tabulated
MatchTable == [q \in Queries |-> MatchReference(q)]

Match(query) ==
    IF query \in Queries THEN MatchTable[query] ELSE MatchReference(query)

(***************************************************************************)
(* The corpus.  A Verse row is [version, book, chapter, verse, text]; the  *)
(* text column is nullable, and has_text is FALSE for a row whose text is  *)
(* NULL (None in Python).  The pool holds the rows a store may carry, and  *)
(* a store row adds the embedding_index the loader gave it.                *)
(***************************************************************************)
Pool ==
    <<[version |-> <<"K","J","V">>, book |-> <<"J","n">>,
       chapter |-> 1, verse |-> 1, has_text |-> TRUE,
       text |-> <<"J","e","s","u","s"," ","w","e","p","t",".">>],
      [version |-> <<"N","I","V">>, book |-> <<"J","n">>,
       chapter |-> 1, verse |-> 1, has_text |-> TRUE,
       text |-> <<"J","e","s","u","s"," ","w","e","p","t">>],
      [version |-> <<"D","e","f","a","u","l","t">>, book |-> <<"J","n">>,
       chapter |-> 1, verse |-> 1, has_text |-> TRUE,
       text |-> <<"G","o","d"," ","i","s"," ","l","o","v","e">>],
      [version |-> <<"K","J","V">>, book |-> <<"J","n">>,
       chapter |-> 1, verse |-> 2, has_text |-> FALSE,
       text |-> <<>>]>>

PoolIds == 1..Len(Pool)

\* the number of rows of a non-empty store of the model
StoreLen == 2

\* a store: rows in insertion (rowid) order, embedding_index counting from 0
\* as load_bible_data and load_full_bible_from_json assign it
StoreOf(ids) ==
    [i \in 1..Len(ids) |-> [id |-> ids[i], embedding_index |-> i - 1]]

\* the empty store, and every store of StoreLen distinct rows of the pool,
\* in every load order
Stores ==
    {StoreOf(ids) : ids \in
        {q \in [1..0 -> PoolIds] \cup [1..Min2(StoreLen, Len(Pool)) -> PoolIds] :
            \A i, j \in 1..Len(q) : i # j => q[i] # q[j]}}

\* select(Verse).order_by(Verse.embedding_index): the rows' ids, ascending
\* embedding_index (rowid order among equal indices)
SelectOrdered(rows) ==
    LET Before(a, b) ==
            \/ rows[a].embedding_index < rows[b].embedding_index
            \/ rows[a].embedding_index = rows[b].embedding_index /\ a < b
        Rank(a) == Cardinality({b \in 1..Len(rows) : Before(b, a)}) + 1
    IN  [k \in 1..Len(rows) |->
            rows[CHOOSE a \in 1..Len(rows) : Rank(a) = k].id]

\* select(Verse), no ORDER BY: SQL leaves the order of the rows unspecified,
\* so every order of the rows' ids is a result the query may give
SelectAll(rows) ==
    {ids \in [1..Len(rows) -> {rows[k].id : k \in 1..Len(rows)}] :
        \A i, j \in 1..Len(rows) : i # j => ids[i] # ids[j]}

(***************************************************************************)
(* The reference indices.  A map is a TLA+ function; the empty dict is     *)
(* <<>>; a missing value (None) is 0.                                      *)
(***************************************************************************)
EmptyMap == <<>>

None == 0

DefaultKey == <<"d","e","f","a","u","l","t">>

MapGet(m, k) == IF k \in DOMAIN m THEN m[k] ELSE None

MapPut(m, k, v) == (k :> v) @@ m

\* dict.setdefault(k, v), the dict afterwards
MapSetDefault(m, k, v) == IF k \in DOMAIN m THEN m ELSE (k :> v) @@ m

\* lines 207-209: the version map of a reference once entry id is recorded
VersionMapWith(version_map, id) ==
    MapPut(MapSetDefault(version_map, DefaultKey, id),
           Lower(Pool[id].version), id)

\* lines 203-209 for entry id whose book key is book_key
BuildEntry(lookups, id, book_key, ref_key) ==
    IF Len(book_key) = 0 THEN lookups
    ELSE [book_lookup |->
             MapSetDefault(lookups.book_lookup, book_key, Pool[id].book),
          reference_lookup |->
             MapPut(lookups.reference_lookup, ref_key,
                    VersionMapWith(
                        IF ref_key \in DOMAIN lookups.reference_lookup
                        THEN lookups.reference_lookup[ref_key]
                        ELSE EmptyMap, id))]

\* the key of an entry in reference_lookup
RefKey(book_key, id) == <<book_key, Pool[id].chapter, Pool[id].verse>>

\* one iteration of the loop of _build_reference_cache on entry id:
\* the two lookups afterwards
BuildStep(lookups, id) ==
    BuildEntry(lookups, id, NormalizeBook(Pool[id].book),
               RefKey(NormalizeBook(Pool[id].book), id))

RECURSIVE BuildFrom(_, _, _)
BuildFrom(lookups, cache, i) ==
    IF i > Len(cache) THEN lookups
    ELSE BuildFrom(BuildStep(lookups, cache[i]), cache, i + 1)

EmptyLookups == [book_lookup |-> EmptyMap, reference_lookup |-> EmptyMap]

\* _build_reference_cache run to completion over a cache
BuildReferenceCache(cache) == BuildFrom(EmptyLookups, cache, 1)

\* lines 239-247: the entry of a version map for a version hint
PickVersion(version_map, version_hint) ==
    IF DOMAIN version_map = {} THEN None
    ELSE IF Len(version_hint) > 0
            /\ MapGet(version_map, Lower(version_hint)) # None
         THEN MapGet(version_map, Lower(version_hint))
    ELSE MapGet(version_map, DefaultKey)

\* the lookup with the parsed tag taken before the caller's hint at line 222
LookupReferenceTagFirst(match, version, books, references, book_key, ref_key) ==
    IF book_key \notin DOMAIN books THEN None
    ELSE IF ref_key \notin DOMAIN references THEN None
    ELSE PickVersion(references[ref_key],
                     IF Len(match.version) > 0 THEN match.version
                     ELSE version)

\* lines 227-247 on the groups of a match
LookupReference(match, version, books, references, book_key, ref_key) ==
    IF book_key \notin DOMAIN books THEN None
    ELSE IF ref_key \notin DOMAIN references THEN None
    ELSE PickVersion(references[ref_key],
                     IF Len(version) > 0 THEN version ELSE match.version)

\* lines 212-225 on the outcome of the regular expression
ReferenceOf(match, version, books, references) ==
    IF DOMAIN references = {} THEN None
    ELSE IF ~match.ok THEN None
    ELSE LookupReference(match, version, books, references,
             NormalizeBook(match.book),
             <<NormalizeBook(match.book), ParseInt(match.chapter),
               ParseInt(match.verse)>>)

\* VerseMatcher.find_reference: the id of the entry found, or None
find_reference(query, version, books, references) ==
    ReferenceOf(Match(query), version, books, references)

(***************************************************************************)
(* The semantic matcher.  The encoder and the FAISS index are external:    *)
(* the index is the list of entry ids whose texts were embedded (vector i  *)
(* is the text of vectors[i + 1]), and what a search answers is fixed for  *)
(* a run by an oracle: a ranking of the index's vectors, or an exception.  *)
(***************************************************************************)
NoIndex == [present |-> FALSE, vectors |-> <<>>]

IndexOf(cache) == [present |-> TRUE, vectors |-> cache]

Oracles == {"ordinal", "reverse", "raise"}

\* exp(-dist / 10) of the hit of rank r, in thousandths
SimAt(r) == IF r = 1 THEN 1000 ELSE 500

\* the vectors of an index of m vectors, nearest first
OracleRanking(backend, m) ==
    [r \in 1..m |->
        [idx |-> IF backend = "ordinal" THEN r - 1 ELSE m - r,
         sim |-> SimAt(r)]]

\* find_best_match's top_k
TopK == 20

\* faiss_index.search(query_embedding, k): k hits, padded with index -1 at
\* the largest distance (similarity 0) when the index holds fewer vectors
FaissSearch(backend, index, k) ==
    LET ranking == OracleRanking(backend, Len(index.vectors))
    IN  [r \in 1..k |->
            IF r <= Len(ranking) THEN ranking[r]
            ELSE [idx |-> -1, sim |-> 0]]

\* list filter keeping the hits with idx < n, in order
RECURSIVE KeepBelow(_, _)
KeepBelow(hits, n) ==
    IF Len(hits) = 0 THEN <<>>
    ELSE (IF hits[1].idx < n THEN <<hits[1]>> ELSE <<>>)
         \o KeepBelow(Tail(hits), n)

\* VerseMatcher.semantic_match: the (idx, similarity) list
semantic_match(backend, top_k, encoder, index, cache) ==
    IF ~encoder \/ ~index.present THEN <<>>
    ELSE IF backend = "raise" \/ Min2(top_k, Len(cache)) = 0 THEN <<>>
    ELSE KeepBelow(FaissSearch(backend, index, Min2(top_k, Len(cache))),
                   Len(cache))

(***************************************************************************)
(* find_best_match, lines 152-192: candidates, scoring loop, threshold.    *)
(* A combined score and a threshold are in ten-thousandths.                *)
(***************************************************************************)
\* the fallback list stopping one entry short of the cache
FallbackCandidatesShort(cache) ==
    [i \in 1..(Len(cache) - 1) |-> [idx |-> i - 1, sim |-> 0]]

\* line 152: the whole cache, semantic score 0
FallbackCandidates(cache) ==
    [i \in 1..Len(cache) |-> [idx |-> i - 1, sim |-> 0]]

\* the combination that takes the fuzzy-only weights in either mode
CombinedScoreFuzzyOnly(using_embeddings, exact_score, fuzzy_score, semantic_score) ==
    3 * exact_score + 7 * fuzzy_score

\* lines 173-179: the weighted combination
CombinedScore(using_embeddings, exact_score, fuzzy_score, semantic_score) ==
    IF using_embeddings
    THEN IF exact_score > 500
         THEN 5 * exact_score + 3 * fuzzy_score + 2 * semantic_score
         ELSE 2 * exact_score + 5 * fuzzy_score + 3 * semantic_score
    ELSE 3 * exact_score + 7 * fuzzy_score

\* Python's list[idx] for idx in -len..len-1
PyItem(list, idx) == IF idx >= 0 THEN list[idx + 1] ELSE list[Len(list) + idx + 1]

\* the two text scores of each query against each pool text, tabulated
ScoreTable ==
    [q \in Queries, id \in PoolIds |->
        [exact |-> exact_match(q, Pool[id].text),
         fuzzy |-> fuzzy_match(q, Pool[id].text)]]

\* self.exact_match(query, verse.text)
ExactScore(query, id) ==
    IF query \in Queries THEN ScoreTable[query, id].exact
    ELSE exact_match(query, Pool[id].text)

\* self.fuzzy_match(query, verse.text)
FuzzyScore(query, id) ==
    IF query \in Queries THEN ScoreTable[query, id].fuzzy
    ELSE fuzzy_match(query, Pool[id].text)

\* the combined score of one candidate
CandidateScore(query, cache, using_embeddings, cand) ==
    LET id == PyItem(cache, cand.idx)
    IN  CombinedScore(using_embeddings, ExactScore(query, id),
                      FuzzyScore(query, id), cand.sim)

\* the comparison of line 181 letting an equal score replace the winner
KeepBestLast(acc, verse, combined) ==
    IF combined >= acc.best_score
    THEN [acc EXCEPT !.best_verse = verse, !.best_score = combined]
    ELSE acc

\* lines 181-183: the best so far after a candidate of score combined
KeepBest(acc, verse, combined) ==
    IF combined > acc.best_score
    THEN [acc EXCEPT !.best_verse = verse, !.best_score = combined]
    ELSE acc

\* lines 162-183: one iteration of the loop, on candidate cand
ScoreStep(query, cache, using_embeddings, cand, acc) ==
    IF cand.idx >= Len(cache) THEN acc
    ELSE KeepBest(acc, PyItem(cache, cand.idx),
                  CandidateScore(query, cache, using_embeddings, cand))

\* lines 168-169 raise on a candidate: normalize_text(verse.text) calls
\* text.lower(), an AttributeError when the text is None
ScoringRaises(cache, cand) ==
    /\ cand.idx < Len(cache)
    /\ ~Pool[PyItem(cache, cand.idx)].has_text

RECURSIVE ScoreLoop(_, _, _, _, _, _)
\* lines 161-183: the loop from candidate i on, best so far in acc; nothing
\* in the loop catches an exception, which ends it
ScoreLoop(query, cache, using_embeddings, candidates, i, acc) ==
    IF i > Len(candidates) THEN acc
    ELSE IF ScoringRaises(cache, candidates[i])
    THEN [acc EXCEPT !.raised = TRUE]
    ELSE ScoreLoop(query, cache, using_embeddings, candidates, i + 1,
                   ScoreStep(query, cache, using_embeddings, candidates[i],
                             acc))

\* the threshold without the cap of line 187
EffectiveMinScoreUncapped(using_embeddings, min_score) == min_score

\* line 187, 0.5 being 5000 ten-thousandths
EffectiveMinScore(using_embeddings, min_score) ==
    IF using_embeddings THEN min_score ELSE Min2(min_score, 5000)

(***************************************************************************)
(* The other inputs of the model.                                          *)
(***************************************************************************)
\* settings.min_match_score, 0.6
MinMatchScore == 6000

\* min_score arguments: 0, the default, and the two sides of a best score
MinScores == {0, MinMatchScore, 7500, 7501}

H_Niv == <<"n","i","v">>

Hints == {NoVersion, H_Niv}

\* the queries that name a verse, asked with a version hint as well
HintedQueries == {Q_Citation, Q_CitationKjv, Q_CitationMiss}

\* what the audio processor's thread transcribes
AudioQueries == {Q_Phrase}

\* the requests made while the audio thread runs
ThreadQueries == {Q_Citation, Q_Phrase}

engine == <<embedder, faiss_index, verses_cache, book_lookup,
            reference_lookup>>

Callers == {"api", "audio"}

NoLocals ==
    [query |-> <<>>, min_score |-> 0, version |-> NoVersion,
     avail |-> FALSE, iter |-> <<>>, pos |-> 0]

NoCall ==
    [kind |-> "none", query |-> <<>>, min_score |-> 0, version |-> NoVersion,
     ret |-> "nomatch", entry |-> None, score |-> 0, path |-> "na",
     source |-> "na", avail |-> FALSE, using |-> FALSE, threshold |-> 0,
     best_score |-> 0, candidates |-> <<>>]

Cleared == [c \in Callers |-> NoCall]

Returned(c, result) == [x \in Callers |-> IF x = c THEN result ELSE NoCall]

\* no call of a text function
NoTextIn == [kind |-> "none", a |-> <<>>, b |-> <<>>]

NoTextOut == [calls |-> 0, once |-> <<>>, twice |-> <<>>, score |-> 0]

\* the callers of manager.broadcast: on_transcription and set_lock
BroadcastCallers == {"transcription", "lock"}

\* no broadcast call running
NoFrame ==
    [state |-> "idle", type |-> "none", size |-> 0, start |-> {},
     visited |-> {}, current |-> 0, locked_then |-> FALSE,
     delivered |-> {}, disconnected |-> {}]

\* main.py as loaded: ConnectionManager.__init__, no task running
ServerIdle ==
    /\ locked = FALSE
    /\ active_connections = {}
    /\ task = [pc |-> "idle", text |-> <<>>]
    /\ bc = [c \in BroadcastCallers |-> NoFrame]
    /\ last_sent = [type |-> "none", to |-> 0, locked |-> FALSE]

\* AudioProcessor.__init__, lines 12-16: not running, the queue empty, no
\* thread launched
AudioIdle ==
    /\ is_running = FALSE
    /\ audio_queue = <<>>
    /\ listener = "none"
    /\ processor = "none"
    /\ audio_buffer = 0
    /\ transcribed = {}
    /\ stop_called = FALSE

Init ==
    /\ ServerIdle
    /\ AudioIdle
    /\ text_in = NoTextIn
    /\ text_out = NoTextOut
    /\ store \in Stores
    /\ oracle \in Oracles
    /\ embedder = FALSE
    /\ faiss_index = NoIndex
    /\ verses_cache = <<>>
    /\ book_lookup = EmptyMap
    /\ reference_lookup = EmptyMap
    /\ ipc = "idle"
    /\ started = FALSE
    /\ pc = [c \in Callers |-> "idle"]
    /\ loc = [c \in Callers |-> NoLocals]
    /\ out = Cleared
    /\ earlier = NoCall

(***************************************************************************)
(* What a find_best_match call returns.  The record keeps, beside the      *)
(* returned (verse, score), what the call read on its way: the capability  *)
(* semantic_match saw (avail, line 94), using_embeddings (line 159), the   *)
(* candidate list and its source, the best score and the threshold.        *)
(***************************************************************************)
\* the length check of line 133 without the strip()
TooShortUntrimmed(query) == Len(query) < 5

\* line 133: not query or len(query.strip()) < 5
TooShort(query) == Len(Strip(query)) < 5

ShortResult(query, min_score, version) ==
    [NoCall EXCEPT !.kind = "fbm", !.query = query, !.min_score = min_score,
                   !.version = version, !.path = "short"]

\* line 140: (reference_match, 1.0, latency_ms)
ReferenceResult(query, min_score, version, id) ==
    [NoCall EXCEPT !.kind = "fbm", !.query = query, !.min_score = min_score,
                   !.version = version, !.path = "reference",
                   !.ret = "match", !.entry = id, !.score = 10000]

\* the gate with a strict comparison at line 189
GateStrict(call, acc, effective_min_score) ==
    IF acc.best_verse # None /\ acc.best_score > effective_min_score
    THEN [call EXCEPT !.ret = "match", !.entry = acc.best_verse,
                      !.score = acc.best_score,
                      !.best_score = acc.best_score,
                      !.threshold = effective_min_score]
    ELSE [call EXCEPT !.best_score = acc.best_score,
                      !.threshold = effective_min_score]

\* lines 185-192: the gate on the loop's outcome acc
Gate(call, acc, effective_min_score) ==
    IF acc.best_verse # None /\ acc.best_score >= effective_min_score
    THEN [call EXCEPT !.ret = "match", !.entry = acc.best_verse,
                      !.score = acc.best_score,
                      !.best_score = acc.best_score,
                      !.threshold = effective_min_score]
    ELSE [call EXCEPT !.best_score = acc.best_score,
                      !.threshold = effective_min_score]

\* the call that ends in the exception the loop raised
RaisedResult(call) == [call EXCEPT !.path = "raised", !.ret = "error"]

\* lines 161-192 on the loop's outcome: the exception propagates to the
\* caller, or the gate decides
LoopOutcome(call, acc, effective_min_score) ==
    IF acc.raised THEN RaisedResult(call)
    ELSE Gate([call EXCEPT !.path = "scored"], acc, effective_min_score)

\* lines 159-192 on a candidate list
ScoreCandidates(call, cache, using_embeddings, candidates) ==
    LoopOutcome([call EXCEPT !.using = using_embeddings,
                             !.candidates = candidates],
         ScoreLoop(call.query, cache, using_embeddings, candidates, 1,
                   [best_verse |-> None, best_score |-> 0, raised |-> FALSE]),
         EffectiveMinScore(using_embeddings, call.min_score))

\* the record of a call with its arguments
CallOf(query, min_score, version, avail) ==
    [NoCall EXCEPT !.kind = "fbm", !.query = query, !.min_score = min_score,
                   !.version = version, !.avail = avail]

\* lines 152-192 on the semantic results sem
ScoredResult(query, min_score, version, sem, avail, cache, emb, index) ==
    IF Len(sem) = 0
    THEN ScoreCandidates(
             [CallOf(query, min_score, version, avail)
                 EXCEPT !.source = "fallback"],
             cache, emb /\ index.present, FallbackCandidates(cache))
    ELSE ScoreCandidates(
             [CallOf(query, min_score, version, avail)
                 EXCEPT !.source = "shortlist"],
             cache, emb /\ index.present, sem)

\* lines 131-147 given what find_reference and semantic_match return
FrontOf(query, min_score, version, avail, ref, sem) ==
    IF TooShort(query)
    THEN [suspend |-> FALSE, avail |-> avail,
          result |-> ShortResult(query, min_score, version)]
    ELSE IF ref # None
    THEN [suspend |-> FALSE, avail |-> avail,
          result |-> ReferenceResult(query, min_score, version, ref)]
    ELSE IF Len(sem) = 0 /\ Len(verses_cache) = 0
    THEN [suspend |-> TRUE, avail |-> avail, result |-> NoCall]
    ELSE [suspend |-> FALSE, avail |-> avail,
          result |-> ScoredResult(query, min_score, version, sem, avail,
                                  verses_cache, embedder, faiss_index)]

\* lines 131-147 in the current state: the call's result, or "suspend" when
\* it goes on to await the store (line 148)
Front(query, min_score, version) ==
    FrontOf(query, min_score, version, embedder /\ faiss_index.present,
            find_reference(query, version, book_lookup, reference_lookup),
            semantic_match(oracle, TopK, embedder, faiss_index, verses_cache))

Locals(query, min_score, version, avail) ==
    [NoLocals EXCEPT !.query = query, !.min_score = min_score,
                     !.version = version, !.avail = avail]

\* self.book_lookup and self.reference_lookup become the lookups given
SetLookups(lookups) ==
    /\ book_lookup' = lookups.book_lookup
    /\ reference_lookup' = lookups.reference_lookup

(***************************************************************************)
(* initialize (lines 31-59), a task of the event loop.  It awaits once,    *)
(* at the store query of line 41.  Every exception ends it at line 57.     *)
(***************************************************************************)
\* lines 34-38 raise (no sentence_transformers, no faiss, no model)
InitLoadFails ==
    /\ ipc = "idle"
    /\ started' = TRUE
    /\ out' = Cleared /\ earlier' = NoCall
    /\ UNCHANGED <<audio, server, text_in, text_out, store, oracle, engine, ipc, pc, loc>>

\* lines 34-41: the embedder is loaded, the store query is awaited
InitLoadOk ==
    /\ ipc = "idle"
    /\ embedder' = TRUE
    /\ ipc' = "await"
    /\ out' = Cleared /\ earlier' = NoCall
    /\ UNCHANGED <<audio, server, text_in, text_out, store, oracle, faiss_index, verses_cache, book_lookup,
                   reference_lookup, started, pc, loc>>

\* line 41 raises
InitQueryFails ==
    /\ ipc = "await"
    /\ ipc' = "idle" /\ started' = TRUE
    /\ out' = Cleared /\ earlier' = NoCall
    /\ UNCHANGED <<audio, server, text_in, text_out, store, oracle, engine, pc, loc>>

\* lines 42-46 on an empty store
InitEmptyStore ==
    /\ ipc = "await" /\ Len(store) = 0
    /\ verses_cache' = SelectOrdered(store)
    /\ SetLookups(BuildReferenceCache(SelectOrdered(store)))
    /\ ipc' = "idle" /\ started' = TRUE
    /\ out' = Cleared /\ earlier' = NoCall
    /\ UNCHANGED <<audio, server, text_in, text_out, store, oracle, embedder, faiss_index, pc, loc>>

\* lines 42-55, index.add raising at line 55: line 54 has already set
\* self.faiss_index to the new, still empty, index
InitIndexAddFails ==
    /\ ipc = "await" /\ Len(store) > 0
    /\ \A i \in 1..Len(store) : Pool[store[i].id].has_text
    /\ verses_cache' = SelectOrdered(store)
    /\ SetLookups(BuildReferenceCache(SelectOrdered(store)))
    /\ faiss_index' = IndexOf(<<>>)
    /\ ipc' = "idle" /\ started' = TRUE
    /\ out' = Cleared /\ earlier' = NoCall
    /\ UNCHANGED <<audio, server, text_in, text_out, store, oracle, embedder, pc, loc>>

\* lines 42-54, encode or the construction of the index raising
InitEncodeFails ==
    /\ ipc = "await" /\ Len(store) > 0
    /\ verses_cache' = SelectOrdered(store)
    /\ SetLookups(BuildReferenceCache(SelectOrdered(store)))
    /\ ipc' = "idle" /\ started' = TRUE
    /\ out' = Cleared /\ earlier' = NoCall
    /\ UNCHANGED <<audio, server, text_in, text_out, store, oracle, embedder, faiss_index, pc, loc>>

\* lines 42-55; embedder.encode(texts) at line 50 raises on a None text
InitComplete ==
    /\ ipc = "await" /\ Len(store) > 0
    /\ \A i \in 1..Len(store) : Pool[store[i].id].has_text
    /\ verses_cache' = SelectOrdered(store)
    /\ SetLookups(BuildReferenceCache(SelectOrdered(store)))
    /\ faiss_index' = IndexOf(SelectOrdered(store))
    /\ ipc' = "idle" /\ started' = TRUE
    /\ out' = Cleared /\ earlier' = NoCall
    /\ UNCHANGED <<audio, server, text_in, text_out, store, oracle, embedder, pc, loc>>

(***************************************************************************)
(* The api caller: requests served after startup (lifespan awaits the      *)
(* first initialize before the application serves).                        *)
(***************************************************************************)
\* what a call does with the outcome f of lines 131-147
Proceed(c, query, min_score, version, f) ==
    IF f.suspend
    THEN /\ pc' = [pc EXCEPT ![c] = "await"]
         /\ loc' = [loc EXCEPT ![c] = Locals(query, min_score, version,
                                             f.avail)]
         /\ out' = Cleared
    ELSE /\ out' = Returned(c, f.result)
         /\ UNCHANGED <<pc, loc>>

\* the earlier call of a request that repeats it
Repeated(last, query, min_score, version) ==
    IF /\ last.kind = "fbm" /\ last.query = query
       /\ last.min_score = min_score /\ last.version = version
    THEN last ELSE NoCall

\* find_best_match up to its return or to the await of line 148
ApiCall(query, min_score, version) ==
    /\ pc["api"] = "idle" /\ started
    /\ earlier' = Repeated(out["api"], query, min_score, version)
    /\ Proceed("api", query, min_score, version,
               Front(query, min_score, version))
    /\ UNCHANGED <<audio, server, text_in, text_out, store, oracle, engine, ipc, started>>

\* lines 149-192 once the store has answered
ApiResume ==
    /\ pc["api"] = "await"
    /\ \E rows \in SelectAll(store) :
          /\ verses_cache' = rows
          /\ SetLookups(BuildReferenceCache(rows))
          /\ out' = Returned("api",
                        ScoredResult(loc["api"].query, loc["api"].min_score,
                                     loc["api"].version, <<>>,
                                     loc["api"].avail, rows, embedder,
                                     faiss_index))
    /\ pc' = [pc EXCEPT !["api"] = "idle"]
    /\ loc' = [loc EXCEPT !["api"] = NoLocals]
    /\ UNCHANGED <<audio, server, text_in, text_out, store, oracle, embedder, faiss_index, ipc, started,
                   earlier>>

\* a direct find_reference call
ApiFindReference(query, version) ==
    /\ pc["api"] = "idle" /\ started
    /\ out' = Returned("api",
                  [NoCall EXCEPT !.kind = "ref", !.query = query,
                      !.version = version,
                      !.entry = find_reference(query, version, book_lookup,
                                               reference_lookup)])
    /\ earlier' = NoCall
    /\ UNCHANGED <<audio, server, text_in, text_out, store, oracle, engine, ipc, started, pc, loc>>

(***************************************************************************)
(* The audio caller: on_transcription calls find_best_match with           *)
(* settings.min_match_score and no version, on the processor thread.       *)
(***************************************************************************)
AudioCall(query) ==
    /\ pc["audio"] = "idle" /\ started
    /\ Proceed("audio", query, MinMatchScore, NoVersion,
               Front(query, MinMatchScore, NoVersion))
    /\ earlier' = NoCall
    /\ UNCHANGED <<audio, server, text_in, text_out, store, oracle, engine, ipc, started>>

\* line 149
AudioAssign ==
    /\ pc["audio"] = "await"
    /\ verses_cache' \in SelectAll(store)
    /\ pc' = [pc EXCEPT !["audio"] = "reset"]
    /\ out' = Cleared /\ earlier' = NoCall
    /\ UNCHANGED <<audio, server, text_in, text_out, store, oracle, embedder, faiss_index, book_lookup,
                   reference_lookup, ipc, started, loc>>

\* lines 199-201: both lookups emptied, the loop's iterator taken
AudioReset ==
    /\ pc["audio"] = "reset"
    /\ book_lookup' = EmptyMap
    /\ reference_lookup' = EmptyMap
    /\ loc' = [loc EXCEPT !["audio"].iter = verses_cache, !["audio"].pos = 1]
    /\ pc' = [pc EXCEPT !["audio"] = "build"]
    /\ out' = Cleared /\ earlier' = NoCall
    /\ UNCHANGED <<audio, server, text_in, text_out, store, oracle, embedder, faiss_index, verses_cache, ipc,
                   started>>

\* lines 202-209: one iteration, on the lookups as they are now
AudioBuildStep ==
    /\ pc["audio"] = "build" /\ loc["audio"].pos <= Len(loc["audio"].iter)
    /\ SetLookups(BuildStep([book_lookup |-> book_lookup,
                             reference_lookup |-> reference_lookup],
                            loc["audio"].iter[loc["audio"].pos]))
    /\ loc' = [loc EXCEPT !["audio"].pos = loc["audio"].pos + 1]
    /\ out' = Cleared /\ earlier' = NoCall
    /\ UNCHANGED <<audio, server, text_in, text_out, store, oracle, embedder, faiss_index, verses_cache,
                   ipc, started, pc>>

\* lines 152-192
AudioScore ==
    /\ pc["audio"] = "build" /\ loc["audio"].pos > Len(loc["audio"].iter)
    /\ out' = Returned("audio",
                  ScoredResult(loc["audio"].query, loc["audio"].min_score,
                               loc["audio"].version, <<>>,
                               loc["audio"].avail, verses_cache, embedder,
                               faiss_index))
    /\ pc' = [pc EXCEPT !["audio"] = "idle"]
    /\ loc' = [loc EXCEPT !["audio"] = NoLocals]
    /\ earlier' = NoCall
    /\ UNCHANGED <<audio, server, text_in, text_out, store, oracle, engine, ipc, started>>

\* the event loop alone: initialize and the api caller
Next ==
    \/ InitLoadFails
    \/ InitLoadOk
    \/ InitQueryFails
    \/ InitEmptyStore
    \/ InitEncodeFails
    \/ InitIndexAddFails
    \/ InitComplete
    \/ \E q \in Queries, m \in MinScores : ApiCall(q, m, NoVersion)
    \/ \E q \in HintedQueries : ApiCall(q, MinMatchScore, H_Niv)
    \/ ApiResume
    \/ \E q \in Queries, v \in Hints : ApiFindReference(q, v)

Spec == Init /\ [][Next]_vars

\* the event loop and the audio processor's thread
ThreadNext ==
    \/ InitLoadFails
    \/ InitLoadOk
    \/ InitQueryFails
    \/ InitEmptyStore
    \/ InitEncodeFails
    \/ InitIndexAddFails
    \/ InitComplete
    \/ \E q \in ThreadQueries : ApiCall(q, MinMatchScore, NoVersion)
    \/ ApiResume
    \/ \E q \in ThreadQueries : ApiFindReference(q, NoVersion)
    \/ \E q \in AudioQueries : AudioCall(q)
    \/ AudioAssign
    \/ AudioReset
    \/ AudioBuildStep
    \/ AudioScore

ThreadSpec == Init /\ [][ThreadNext]_vars

(***************************************************************************)
(* The text functions on their own: normalize_text and exact_match applied *)
(* to arguments drawn from every string over a small alphabet.             *)
(***************************************************************************)
\* the longest argument of normalize_text
MaxNormLen == 3

\* the longest query and the longest verse text given to exact_match
MaxExactLen == 3

\* a letter of either case, a digit, whitespace, punctuation, the underscore
NormAlphabet == {"a", "Z", "1", " ", "'", "_"}

ExactAlphabet == {"a", "B", " "}

\* the strings over an alphabet of at most n characters
StringsUpTo(alphabet, n) == UNION {[1..k -> alphabet] : k \in 0..n}

TextInputs ==
    {[kind |-> "normalize", a |-> s, b |-> <<>>] :
        s \in StringsUpTo(NormAlphabet, MaxNormLen)}
    \cup {[kind |-> "exact", a |-> q, b |-> t] :
              q \in StringsUpTo(ExactAlphabet, MaxExactLen),
              t \in StringsUpTo(ExactAlphabet, MaxExactLen)}

TextInit ==
    /\ ServerIdle
    /\ AudioIdle
    /\ text_in \in TextInputs
    /\ text_out = NoTextOut
    /\ store = <<>>
    /\ oracle = "ordinal"
    /\ embedder = FALSE
    /\ faiss_index = NoIndex
    /\ verses_cache = <<>>
    /\ book_lookup = EmptyMap
    /\ reference_lookup = EmptyMap
    /\ ipc = "idle"
    /\ started = FALSE
    /\ pc = [c \in Callers |-> "idle"]
    /\ loc = [c \in Callers |-> NoLocals]
    /\ out = Cleared
    /\ earlier = NoCall

\* what a call of a text function leaves alone
TextUnchanged ==
    UNCHANGED <<text_in, store, oracle, engine, ipc, started, pc, loc, out,
                earlier, server, audio>>

\* normalize_text(text)
NormalizeText ==
    /\ text_in.kind = "normalize" /\ text_out.calls = 0
    /\ text_out' = [text_out EXCEPT !.calls = 1,
                                    !.once = normalize_text(text_in.a)]
    /\ TextUnchanged

\* normalize_text of what normalize_text returned
NormalizeAgain ==
    /\ text_in.kind = "normalize" /\ text_out.calls = 1
    /\ text_out' = [text_out EXCEPT !.calls = 2,
                                    !.twice = normalize_text(text_out.once)]
    /\ TextUnchanged

\* VerseMatcher.exact_match(query, verse_text)
ExactMatch ==
    /\ text_in.kind = "exact" /\ text_out.calls = 0
    /\ text_out' = [text_out EXCEPT !.calls = 1,
                                    !.score = exact_match(text_in.a,
                                                          text_in.b)]
    /\ TextUnchanged

TextNext ==
    \/ NormalizeText
    \/ NormalizeAgain
    \/ ExactMatch

TextSpec == TextInit /\ [][TextNext]_vars

(***************************************************************************)
(* main.py: the connection manager, on_transcription and the /lock and     *)
(* /ws handlers, all tasks of the server's event loop.  A task runs        *)
(* without interruption from one await to the next; an action is one such  *)
(* run.                                                                    *)
(***************************************************************************)
\* the number of websocket clients
NumSockets == 2

\* the server once lifespan has run: the corpus loaded and initialize
\* returned without a semantic backend (the encoder loaded, the index not)
ServerInit ==
    /\ ServerIdle
    /\ AudioIdle
    /\ text_in = NoTextIn
    /\ text_out = NoTextOut
    /\ store = StoreOf(<<1, 2>>)
    /\ oracle = "ordinal"
    /\ embedder = TRUE
    /\ faiss_index = NoIndex
    /\ verses_cache = SelectOrdered(StoreOf(<<1, 2>>))
    /\ book_lookup =
          BuildReferenceCache(SelectOrdered(StoreOf(<<1, 2>>))).book_lookup
    /\ reference_lookup =
          BuildReferenceCache(
              SelectOrdered(StoreOf(<<1, 2>>))).reference_lookup
    /\ ipc = "idle"
    /\ started = TRUE
    /\ pc = [c \in Callers |-> "idle"]
    /\ loc = [c \in Callers |-> NoLocals]
    /\ out = Cleared
    /\ earlier = NoCall

\* what the server's tasks leave alone: the matcher and the text functions
MatcherUnchanged ==
    UNCHANGED <<store, oracle, engine, ipc, started, pc, loc, out, earlier,
                text_in, text_out>>

\* the for statement of line 37 asking its iterator for the next connection,
\* connections being the set as it is now: the frames the loop may go on in.
\* A set whose size changed makes next() raise RuntimeError, which leaves
\* broadcast at line 37; a connection not yet visited is sent to (line 39);
\* at the end of the set the loop is left (lines 44-45 follow).
FrameNext(frame, connections) ==
    IF Cardinality(connections) # frame.size
    THEN {[frame EXCEPT !.state = "raised", !.current = 0]}
    ELSE {[frame EXCEPT !.state = "sending", !.current = conn,
                        !.visited = frame.visited \cup {conn},
                        !.locked_then = locked'] :
              conn \in connections \ frame.visited}
         \cup (IF connections \ frame.visited = {} \/ connections # frame.start
               THEN {[frame EXCEPT !.state = "done", !.current = 0]}
               ELSE {})

\* the caller's frame becomes next, and a finished broadcast has discarded
\* its failed connections (lines 44-45)
FrameStep(caller, next, connections) ==
    /\ bc' = [bc EXCEPT ![caller] = next]
    /\ active_connections' =
          IF next.state = "done" THEN connections \ next.disconnected
          ELSE connections

\* manager.broadcast(message) from its call to its first await or its end
BroadcastBegin(caller, type) ==
    \E next \in FrameNext([NoFrame EXCEPT
                               !.type = type,
                               !.size = Cardinality(active_connections),
                               !.start = active_connections],
                          active_connections) :
        FrameStep(caller, next, active_connections)

\* ConnectionManager.connect, lines 27-29, once accept() has returned
Connect(ws) ==
    /\ ws \notin active_connections
    /\ active_connections' = active_connections \cup {ws}
    /\ UNCHANGED <<locked, task, bc, last_sent>>
    /\ MatcherUnchanged
    /\ UNCHANGED audio

\* websocket_endpoint on WebSocketDisconnect, line 151: manager.disconnect
Disconnect(ws) ==
    /\ ws \in active_connections
    /\ active_connections' = active_connections \ {ws}
    /\ UNCHANGED <<locked, task, bc, last_sent>>
    /\ MatcherUnchanged
    /\ UNCHANGED audio

\* on_transcription, lines 98-102: the lock check, then the matcher is
\* awaited
OnTranscription(text) ==
    /\ task.pc \in {"idle", "skipped", "unmatched", "done", "raised"}
    /\ task' = [pc |-> IF locked THEN "skipped" ELSE "matching",
                text |-> text]
    /\ bc' = [bc EXCEPT !["transcription"] = NoFrame]
    /\ UNCHANGED <<locked, active_connections, last_sent>>
    /\ MatcherUnchanged
    /\ UNCHANGED audio

\* lines 102-123: find_best_match and the commit have returned; a match is
\* broadcast
TranscriptionMatched ==
    /\ task.pc = "matching"
    /\ IF Front(task.text, MinMatchScore, NoVersion).result.ret = "match"
       THEN /\ locked' = locked
            /\ BroadcastBegin("transcription", "verse_match")
            /\ task' = [task EXCEPT !.pc = "broadcast"]
       ELSE /\ task' = [task EXCEPT !.pc = "unmatched"]
            /\ UNCHANGED <<locked, active_connections, bc>>
    /\ UNCHANGED last_sent
    /\ MatcherUnchanged
    /\ UNCHANGED audio

\* set_lock, lines 245-248
SetLock(request_locked) ==
    /\ bc["lock"].state # "sending"
    /\ locked' = request_locked
    /\ BroadcastBegin("lock", "lock_status")
    /\ UNCHANGED <<task, last_sent>>
    /\ MatcherUnchanged
    /\ UNCHANGED audio

\* broadcast, lines 37-45, from the return of one send (ok) or its raising
\* (lines 40-41) to the next await
BroadcastStep(caller, ok) ==
    /\ bc[caller].state = "sending"
    /\ locked' = locked
    /\ \E next \in FrameNext(
                     IF ok
                     THEN [bc[caller] EXCEPT
                              !.delivered = @ \cup {bc[caller].current}]
                     ELSE [bc[caller] EXCEPT
                              !.disconnected = @ \cup {bc[caller].current}],
                     active_connections) :
          FrameStep(caller, next, active_connections)
    /\ last_sent' =
          IF ok THEN [type |-> bc[caller].type, to |-> bc[caller].current,
                      locked |-> bc[caller].locked_then]
          ELSE last_sent
    /\ task' = IF caller = "transcription"
                  /\ bc'[caller].state \in {"done", "raised"}
               THEN [task EXCEPT !.pc = bc'[caller].state]
               ELSE task
    /\ MatcherUnchanged
    /\ UNCHANGED audio

ServerNext ==
    \/ \E ws \in 1..NumSockets : Connect(ws)
    \/ \E ws \in 1..NumSockets : Disconnect(ws)
    \/ \E text \in {Q_Phrase, Q_Unrelated} : OnTranscription(text)
    \/ TranscriptionMatched
    \/ \E request_locked \in BOOLEAN : SetLock(request_locked)
    \/ \E caller \in BroadcastCallers, ok \in BOOLEAN :
          BroadcastStep(caller, ok)

ServerSpec == ServerInit /\ [][ServerNext]_vars

(***************************************************************************)
(* audio_processor.py: start() launches the thread of start_listening and  *)
(* the thread of process_audio, stop() is called from the main thread.     *)
(* The whisper model is loaded and the audio device works, so no step      *)
(* raises.  An action is a thread's run from one access of the shared      *)
(* state (is_running, audio_queue) to the next.                            *)
(***************************************************************************)
\* the chunks the device delivers in a run
MaxChunks == 2

\* RATE, line 39
Rate == 16000

\* CHUNK, line 36
Chunk == 1024

\* buffer_duration, line 56, in seconds
BufferDuration == 3

\* a constructed AudioProcessor beside an engine and a server that stay as
\* constructed
AudioInit ==
    /\ ServerIdle
    /\ AudioIdle
    /\ text_in = NoTextIn
    /\ text_out = NoTextOut
    /\ store = <<>>
    /\ oracle = "ordinal"
    /\ embedder = FALSE
    /\ faiss_index = NoIndex
    /\ verses_cache = <<>>
    /\ book_lookup = EmptyMap
    /\ reference_lookup = EmptyMap
    /\ ipc = "idle"
    /\ started = FALSE
    /\ pc = [c \in Callers |-> "idle"]
    /\ loc = [c \in Callers |-> NoLocals]
    /\ out = Cleared
    /\ earlier = NoCall

\* start, lines 113-127: both threads are launched; is_running is not
\* written here
Start ==
    /\ listener = "none"
    /\ processor = "none"
    /\ listener' = "launched"
    /\ processor' = "launched"
    /\ UNCHANGED <<is_running, audio_queue, audio_buffer, transcribed,
                   stop_called>>
    /\ MatcherUnchanged
    /\ UNCHANGED server

\* start_listening, lines 30-57: pyaudio is imported, is_running is set
\* (line 33) and the stream is opened
ListenerBegin ==
    /\ listener = "launched"
    /\ is_running' = TRUE
    /\ audio_buffer' = 0
    /\ listener' = "loop"
    /\ UNCHANGED <<audio_queue, processor, transcribed, stop_called>>
    /\ MatcherUnchanged
    /\ UNCHANGED server

\* start_listening, line 59 and, when the loop is left, lines 76-78
ListenerCheck ==
    /\ listener = "loop"
    /\ listener' = IF is_running THEN "read" ELSE "exited"
    /\ UNCHANGED <<is_running, audio_queue, processor, audio_buffer,
                   transcribed, stop_called>>
    /\ MatcherUnchanged
    /\ UNCHANGED server

\* start_listening, lines 61-71: one frame is read; a full buffer
\* (frames_to_collect of line 57) is put in the queue as a chunk.  The
\* thread goes on reading after MaxChunks chunks, which are all that is
\* followed here.
ListenerRead ==
    /\ listener = "read"
    /\ IF Len(audio_queue) + Cardinality(transcribed) >= MaxChunks
       THEN UNCHANGED <<audio_queue, audio_buffer>>
       ELSE IF audio_buffer + 1 >= (Rate * BufferDuration) \div Chunk
            THEN /\ audio_queue' =
                       Append(audio_queue,
                              Len(audio_queue) + Cardinality(transcribed) + 1)
                 /\ audio_buffer' = 0
            ELSE /\ audio_buffer' = audio_buffer + 1
                 /\ UNCHANGED audio_queue
    /\ listener' = "loop"
    /\ UNCHANGED <<is_running, processor, transcribed, stop_called>>
    /\ MatcherUnchanged
    /\ UNCHANGED server

\* process_audio, line 86: the loop condition; a false one ends the thread
ProcessorCheck ==
    /\ processor \in {"launched", "loop"}
    /\ processor' = IF is_running THEN "poll" ELSE "exited"
    /\ UNCHANGED <<is_running, audio_queue, listener, audio_buffer,
                   transcribed, stop_called>>
    /\ MatcherUnchanged
    /\ UNCHANGED server

\* process_audio, lines 88-105: a queued chunk is taken and transcribed, or
\* the thread waits 0.1 s on an empty queue
ProcessorPoll ==
    /\ processor = "poll"
    /\ IF audio_queue # <<>>
       THEN /\ transcribed' = transcribed \cup {Head(audio_queue)}
            /\ audio_queue' = Tail(audio_queue)
       ELSE UNCHANGED <<audio_queue, transcribed>>
    /\ processor' = "loop"
    /\ UNCHANGED <<is_running, listener, audio_buffer, stop_called>>
    /\ MatcherUnchanged
    /\ UNCHANGED server

\* stop, line 131
Stop ==
    /\ listener # "none"
    /\ ~stop_called
    /\ is_running' = FALSE
    /\ stop_called' = TRUE
    /\ UNCHANGED <<audio_queue, listener, processor, audio_buffer,
                   transcribed>>
    /\ MatcherUnchanged
    /\ UNCHANGED server

AudioNext ==
    \/ Start
    \/ ListenerBegin
    \/ ListenerCheck
    \/ ListenerRead
    \/ ProcessorCheck
    \/ ProcessorPoll
    \/ Stop

\* a launched thread that can take a step is scheduled again: each of the
\* two threads runs under weak fairness; start() and stop() need not be
\* called
AudioSpec ==
    /\ AudioInit
    /\ [][AudioNext]_vars
    /\ WF_vars(ListenerBegin \/ ListenerCheck \/ ListenerRead)
    /\ WF_vars(ProcessorCheck \/ ProcessorPoll)

(***************************************************************************)
(* Properties.  out[c] is the call caller c got back, kept while no other  *)
(* process has run since it returned, so the engine's state next to it is  *)
(* the state that call left.                                               *)
(***************************************************************************)
Range(seq) == {seq[i] : i \in 1..Len(seq)}

\* the entries of the store
StoreIds == {store[i].id : i \in 1..Len(store)}

\* the (normalized book, chapter, verse) key of an entry
KeyOf(id) == RefKey(NormalizeBook(Pool[id].book), id)

\* the key a citation names
CitedKey(query) ==
    <<NormalizeBook(Match(query).book), ParseInt(Match(query).chapter),
      ParseInt(Match(query).verse)>>

\* a query of at least 5 trimmed characters that parses as a citation
Cites(query) == ~TooShort(query) /\ Match(query).ok

\* the capability mode of the engine: TRUE is WithSemantic
WithSemantic == embedder /\ faiss_index.present

\* the default slot of a key of the reference index
DefaultOf(key) == MapGet(reference_lookup[key], DefaultKey)

\* the largest combined score over the candidates of a returned call
MaxCombined(call) ==
    SetMax({0} \cup
           {CandidateScore(call.query, verses_cache, call.using,
                           call.candidates[i]) :
               i \in {k \in 1..Len(call.candidates) :
                         call.candidates[k].idx < Len(verses_cache)}})

\* C1: a find_best_match call whose query is a citation (at least 5 trimmed
\* characters) of a key that some stored entry carries returns an entry of
\* that key with score 1.0 by the citation path, without scoring.
CitationAlwaysResolves ==
    \A c \in Callers :
        (/\ out[c].kind = "fbm"
         /\ Cites(out[c].query)
         /\ \E id \in StoreIds : KeyOf(id) = CitedKey(out[c].query))
        => /\ out[c].ret = "match"
           /\ out[c].entry \in PoolIds
           /\ KeyOf(out[c].entry) = CitedKey(out[c].query)
           /\ out[c].score = 10000
           /\ out[c].path = "reference"

\* C2: once initialize has returned against a non-empty store, the cache
\* holds every stored entry and the reference index has a key for every
\* entry with a non-empty normalized book name.
InitializeBuildsCache ==
    (started /\ ipc = "idle" /\ Len(store) > 0)
    => /\ Range(verses_cache) = StoreIds
       /\ \A id \in StoreIds :
             Len(NormalizeBook(Pool[id].book)) > 0
             => KeyOf(id) \in DOMAIN reference_lookup

\* C3: two consecutive identical find_best_match calls, nothing else running
\* between them, return the same outcome (match or not, entry, score).
RepeatedCallSameOutcome ==
    (earlier.kind = "fbm" /\ out["api"].kind = "fbm")
    => /\ out["api"].ret = earlier.ret
       /\ out["api"].entry = earlier.entry
       /\ out["api"].score = earlier.score

\* C4: within one find_best_match call one capability mode governs every
\* mode-dependent step: the mode semantic_match saw (line 94) is the mode
\* that chose the weights and the threshold (line 159), and the candidates
\* are the semantic shortlist exactly when that mode is WithSemantic.
OneModePerCall ==
    \A c \in Callers :
        out[c].path = "scored"
        => /\ out[c].avail = out[c].using
           /\ (out[c].source = "shortlist") = out[c].using

\* C5: the effective threshold of a scored call is min(min_score, 0.5) in
\* Degraded mode, hence at most 0.5, and exactly min_score in WithSemantic
\* mode.
ThresholdByMode ==
    \A c \in Callers :
        out[c].path = "scored"
        => /\ WithSemantic => out[c].threshold = out[c].min_score
           /\ ~WithSemantic
              => /\ out[c].threshold = Min2(out[c].min_score, 5000)
                 /\ out[c].threshold <= 5000

\* a Degraded call asked for more than 0.5 that matched under the cap
DegradedCapApplied ==
    /\ out["api"].path = "scored"
    /\ ~WithSemantic
    /\ out["api"].min_score = 7501
    /\ out["api"].threshold = 5000
    /\ out["api"].ret = "match"

ChosenVersion(call) ==
    IF Len(call.version) > 0 THEN call.version
    ELSE Match(call.query).version

\* the cached entries of the cited key whose version is the chosen one
NamedEntries(call) ==
    {id \in Range(verses_cache) :
        /\ KeyOf(id) = CitedKey(call.query)
        /\ Lower(Pool[id].version) = Lower(ChosenVersion(call))}

\* C7: find_reference on a key of the index goes by the caller's hint if
\* given, else by the tag parsed from the query; when an entry of the key has
\* the version so chosen (case-insensitively) that entry is returned, and
\* otherwise the key's default entry.
VariantByPriority ==
    (/\ out["api"].kind = "ref" \/ out["api"].path = "reference"
     /\ Match(out["api"].query).ok
     /\ CitedKey(out["api"].query) \in DOMAIN reference_lookup)
    => IF /\ Len(ChosenVersion(out["api"])) > 0
          /\ NamedEntries(out["api"]) # {}
       THEN out["api"].entry \in NamedEntries(out["api"])
       ELSE out["api"].entry = DefaultOf(CitedKey(out["api"].query))

\* a hint that names a version other than the tag's and the default's
HintBeatsTagAndDefault ==
    /\ out["api"].kind = "ref"
    /\ out["api"].query = Q_CitationKjv
    /\ out["api"].version = H_Niv
    /\ out["api"].entry = 2
    /\ CitedKey(Q_CitationKjv) \in DOMAIN reference_lookup
    /\ 1 \in Range(verses_cache)
    /\ DefaultOf(CitedKey(Q_CitationKjv)) # 2

\* the positions of the cache whose entry has a key
PositionsOf(key) ==
    {i \in 1..Len(verses_cache) : KeyOf(verses_cache[i]) = key}

\* C8: the default slot of every key of the reference index is the first
\* entry of the cache, in cache order, that has the key.
DefaultIsFirstCarrier ==
    \A key \in DOMAIN reference_lookup :
        /\ PositionsOf(key) # {}
        /\ DefaultOf(key) = verses_cache[SetMin(PositionsOf(key))]

\* C9: whenever a call can begin, the cache and the two reference indices
\* are both empty or both complete: the indices are those of the cache.
NoPartialState ==
    (started /\ pc["api"] = "idle")
    => [book_lookup |-> book_lookup, reference_lookup |-> reference_lookup]
       = BuildReferenceCache(verses_cache)

\* C10: the candidates of a call that fell back are the positions of the
\* whole cache in cache order, each with semantic score 0, and the cache is
\* then the whole of a non-empty store.
FallbackIsWholeCache ==
    \A c \in Callers :
        (out[c].path = "scored" /\ out[c].source = "fallback")
        => /\ Len(out[c].candidates) = Len(verses_cache)
           /\ \A i \in 1..Len(verses_cache) :
                 out[c].candidates[i] = [idx |-> i - 1, sim |-> 0]
           /\ Len(store) > 0
              => /\ Len(verses_cache) = Len(store)
                 /\ Range(verses_cache) = StoreIds

\* a fallback over a cache that the query had to rebuild
FallbackAfterRebuild ==
    /\ out["api"].path = "scored"
    /\ out["api"].source = "fallback"
    /\ ~embedder
    /\ Len(store) > 0
    /\ Len(out["api"].candidates) = Len(store)

\* the positions of a returned call's candidate list that the loop scored
\* (lines 162-163 skip the others)
ScoredPositions(call) ==
    {k \in 1..Len(call.candidates) :
        call.candidates[k].idx < Len(verses_cache)}

\* the scored positions whose combined score is the largest
BestPositions(call) ==
    {k \in ScoredPositions(call) :
        CandidateScore(call.query, verses_cache, call.using,
                       call.candidates[k]) = MaxCombined(call)}

\* C11: the entry a scored call returns is the first candidate, in
\* candidate-list order, whose combined score is the largest over the
\* candidates; a later candidate of equal score does not replace it.
FirstOfEqualsWins ==
    \A c \in Callers :
        (out[c].path = "scored" /\ out[c].ret = "match")
        => /\ BestPositions(out[c]) # {}
           /\ out[c].entry =
                 PyItem(verses_cache,
                        out[c].candidates[SetMin(BestPositions(out[c]))].idx)

\* a call won by the first of two candidates of equal, largest score
TieWonByFirst ==
    /\ out["api"].path = "scored"
    /\ out["api"].ret = "match"
    /\ Cardinality(BestPositions(out["api"])) >= 2
    /\ out["api"].entry =
          PyItem(verses_cache,
                 out["api"].candidates[SetMin(BestPositions(out["api"]))].idx)
    /\ \E k \in BestPositions(out["api"]) :
          PyItem(verses_cache, out["api"].candidates[k].idx)
             # out["api"].entry

\* the candidates of a returned call that denote the entry it returned
WinnerPositions(call) ==
    {k \in ScoredPositions(call) :
        PyItem(verses_cache, call.candidates[k].idx) = call.entry}

\* C12: the score a scored call returns is the blend of the winning
\* candidate's sub-scores under the policy of the current mode:
\* 0.5 exact + 0.3 fuzzy + 0.2 semantic in WithSemantic mode when exact > 0.5,
\* 0.2 exact + 0.5 fuzzy + 0.3 semantic in WithSemantic mode otherwise, and
\* 0.3 exact + 0.7 fuzzy in Degraded mode; the score lies in [0, 1].
ScoreIsBlendOfMode ==
    \A c \in Callers :
        (out[c].path = "scored" /\ out[c].ret = "match")
        => /\ \E k \in WinnerPositions(out[c]) :
                 out[c].score =
                    IF WithSemantic
                    THEN IF ExactScore(out[c].query, out[c].entry) > 500
                         THEN 5 * ExactScore(out[c].query, out[c].entry)
                              + 3 * FuzzyScore(out[c].query, out[c].entry)
                              + 2 * out[c].candidates[k].sim
                         ELSE 2 * ExactScore(out[c].query, out[c].entry)
                              + 5 * FuzzyScore(out[c].query, out[c].entry)
                              + 3 * out[c].candidates[k].sim
                    ELSE 3 * ExactScore(out[c].query, out[c].entry)
                         + 7 * FuzzyScore(out[c].query, out[c].entry)
           /\ out[c].score >= 0
           /\ out[c].score <= 10000

\* a WithSemantic call whose winner has exact > 0.5 and every sub-score 1:
\* the blend is exactly 1.0
FullBlendReturned ==
    /\ out["api"].path = "scored"
    /\ out["api"].ret = "match"
    /\ WithSemantic
    /\ out["api"].source = "shortlist"
    /\ ExactScore(out["api"].query, out["api"].entry) > 500
    /\ out["api"].score = 10000

\* C13: a failure while scoring one candidate does not abort the call:
\* find_best_match skips that candidate and returns a match or no match,
\* never an exception.
NoCandidateAborts ==
    \A c \in Callers :
        out[c].kind = "fbm" => out[c].ret \in {"match", "nomatch"}

\* C14: a find_best_match call whose query has fewer than 5 characters after
\* trimming (the empty query included) returns no match, by the length check
\* alone, in every engine state and for every min_score, and the step leaves
\* the cache, the reference indices and the semantic backend unchanged.
ShortQueryRejected ==
    [][\A c \in Callers :
          (/\ out'[c].kind = "fbm"
           /\ Len(Strip(out'[c].query)) < 5)
          => /\ out'[c].ret = "nomatch"
             /\ out'[c].path = "short"
             /\ UNCHANGED engine]_vars

\* a query of 5 or more characters, fewer than 5 once trimmed, rejected by an
\* engine whose cache and semantic backend are built
PaddedShortQueryRejected ==
    /\ out["api"].kind = "fbm"
    /\ Len(out["api"].query) >= 5
    /\ Len(Strip(out["api"].query)) < 5
    /\ out["api"].ret = "nomatch"
    /\ out["api"].path = "short"
    /\ WithSemantic
    /\ Len(verses_cache) > 0

\* the ordinal (embedding_index) of a stored entry
OrdinalOf(id) ==
    store[CHOOSE k \in 1..Len(store) : store[k].id = id].embedding_index

\* C15: whenever the cache is non-empty, however it was built, it is the
\* sequence of all stored entries in ascending ordinal position: the entry
\* at cache position i (counted from 0) has ordinal i.
CacheInOrdinalOrder ==
    Len(verses_cache) > 0
    => /\ Len(verses_cache) = Len(store)
       /\ Range(verses_cache) = StoreIds
       /\ \A i \in 1..Len(verses_cache) : OrdinalOf(verses_cache[i]) = i - 1

\* the containment score of two normalized strings as the claim of
\* exact_match words it, in thousandths
ContainmentScore(q, t) ==
    IF Len(q) = 0 \/ Len(t) = 0 THEN 0
    ELSE IF IsSubstring(q, t) THEN (1000 * Len(q)) \div Len(t)
    ELSE IF IsSubstring(t, q) THEN (900 * Len(t)) \div Len(q)
    ELSE 0

\* the two normalized arguments of the exact_match call made
ExactArgs == <<normalize_text(text_in.a), normalize_text(text_in.b)>>

\* C16 as stated: exact_match is the containment score of the normalized
\* strings q and t, lies in [0, 1], is 1 exactly when q equals t, and is 0
\* when neither contains the other.
ExactIsOneIffEqual ==
    (text_in.kind = "exact" /\ text_out.calls = 1)
    => /\ text_out.score = ContainmentScore(ExactArgs[1], ExactArgs[2])
       /\ text_out.score >= 0 /\ text_out.score <= 1000
       /\ text_out.score = 1000 <=> ExactArgs[1] = ExactArgs[2]
       /\ (/\ ~IsSubstring(ExactArgs[1], ExactArgs[2])
           /\ ~IsSubstring(ExactArgs[2], ExactArgs[1]))
          => text_out.score = 0

\* C16: exact_match is the containment score of the normalized strings q and
\* t, lies in [0, 1], is 1 exactly when q equals t and is not empty, and is 0
\* when neither contains the other.
ExactIsOneIffEqualNonEmpty ==
    (text_in.kind = "exact" /\ text_out.calls = 1)
    => /\ text_out.score = ContainmentScore(ExactArgs[1], ExactArgs[2])
       /\ text_out.score >= 0 /\ text_out.score <= 1000
       /\ text_out.score = 1000
          <=> (ExactArgs[1] = ExactArgs[2] /\ Len(ExactArgs[1]) > 0)
       /\ (/\ ~IsSubstring(ExactArgs[1], ExactArgs[2])
           /\ ~IsSubstring(ExactArgs[2], ExactArgs[1]))
          => text_out.score = 0

\* a verse text contained in a longer query, scored with the 0.9 penalty
ContainedTextPenalized ==
    /\ text_in.kind = "exact" /\ text_out.calls = 1
    /\ Len(ExactArgs[2]) > 0
    /\ Len(ExactArgs[2]) < Len(ExactArgs[1])
    /\ IsSubstring(ExactArgs[2], ExactArgs[1])
    /\ text_out.score = (900 * Len(ExactArgs[2])) \div Len(ExactArgs[1])
    /\ text_out.score > 0

\* a string of lowercase alphanumerics separated by single spaces
IsCanonical(s) ==
    /\ \A i \in 1..Len(s) : IsLower(s[i]) \/ IsDigit(s[i]) \/ s[i] = " "
    /\ Len(s) > 0 => (s[1] # " " /\ s[Len(s)] # " ")
    /\ \A i \in 1..(Len(s) - 1) : ~(s[i] = " " /\ s[i + 1] = " ")

\* C17: normalize_text returns the canonical form of its argument: only
\* lowercase alphanumerics separated by single spaces (punctuation and
\* underscores having become spaces), and normalizing the result again
\* returns it unchanged.
NormalizeIsCanonical ==
    /\ (text_in.kind = "normalize" /\ text_out.calls >= 1)
       => IsCanonical(text_out.once)
    /\ (text_in.kind = "normalize" /\ text_out.calls = 2)
       => text_out.twice = text_out.once

\* C18: whenever the semantic backend counts as available the vector index
\* was built from exactly the current cache (as many vectors as cache
\* entries, vector i being cache entry i), and every candidate ordinal that
\* semantic_match returned lies in [0, N).
IndexMatchesCache ==
    /\ WithSemantic => faiss_index.vectors = verses_cache
    /\ \A c \in Callers :
          (out[c].path = "scored" /\ out[c].source = "shortlist")
          => \A k \in 1..Len(out[c].candidates) :
                /\ out[c].candidates[k].idx >= 0
                /\ out[c].candidates[k].idx < Len(verses_cache)

\* C19: no 'verse_match' message is sent to a client at a moment when
\* manager.locked is true.
NoVerseMatchWhileLocked ==
    ~(last_sent.type = "verse_match" /\ last_sent.locked)

\* C20: a broadcast call completes without raising, having sent the message
\* to every client that was connected when it was called, and afterwards
\* the connections whose send failed are no longer active.
BroadcastCompletes ==
    \A caller \in BroadcastCallers :
        /\ bc[caller].state # "raised"
        /\ bc[caller].state = "done"
           => /\ bc[caller].start
                    = bc[caller].delivered \cup bc[caller].disconnected
              /\ bc[caller].delivered \cap bc[caller].disconnected = {}


\* C21: after start(), with the model loaded and the device working, the
\* two loops run until stop() is called, under every scheduling of the two
\* threads: a chunk in the queue is eventually taken and transcribed unless
\* stop() is called.
QueuedChunkTranscribed ==
    \A ch \in 1..MaxChunks :
        (ch \in Range(audio_queue)) ~> (ch \in transcribed \/ stop_called)

=============================================================================
